---- MODULE Spec2Model ----
(***************************************************************************)
(* A model of three algorithms of lokal-opensource:                        *)
(*   RouteOrderOptimizer (src/applications/opt/RouteOrderOptimizer.py)     *)
(*   GMapsOptimizer      (src/GooglePlacesAPI/GMapsOptimizer.py)           *)
(*   PDpostprocessor.select_balanced_types                                 *)
(*                       (src/GooglePlacesAPI/PDpostprocessor.py)          *)
(*                                                                         *)
(* Units.  Candidates of the route optimizer lie on the equator (lat = 0)  *)
(* and their longitude is a whole number of degrees, so the Haversine      *)
(* distance of two of them is R * radians(1) * |dlon|; distances are       *)
(* counted in that unit.  An adjusted distance, the quotient               *)
(* distance / indicator of the code, is kept as the pair of its operands   *)
(* and compared the way IEEE division compares: x/0 is +inf for x > 0,     *)
(* 0/0 is NaN.                                                             *)
(*                                                                         *)
(* Polygon vertices and grid cursors of the coverage generator are whole   *)
(* numbers of half a base step: a latitude is counted in halves of the     *)
(* degrees radius 1 spans (radius / earth_radius * 180 / pi), a longitude  *)
(* in halves of the same divided by the cosine factor of the request's     *)
(* bounding box.  Containment in a polygon is unchanged by scaling an      *)
(* axis, so the scaled picture decides it as the degrees do.  The spacing  *)
(* factor is counted in halves too: 0, 1, 2 stand for 0, 0.5, 1.           *)
(***************************************************************************)
EXTENDS Integers, Sequences, FiniteSets, TLC

\* ------------------------------------------------------------------ bounds
MaxCand == 2
MaxN == 3
Ids == {1, 2, 3}
Lons == {0, 1, 2}
RefLons == {0, 1}
\* Indicators the data model allows (positive), and what the constructor
\* accepts, which is anything: 0 stands for the indicators <= 0.
Indicators == {1, 2}
AnyIndicators == {0, 1, 2}
\* Coverage requests: side of the square the polygons live in, radii, calls
\* of generate_circle_centers on one optimizer.
MaxCoord == 4
MaxRadius == 1
MaxCalls == 2
MaxPolygons == 2
\* Spacing factors of the data model ([0, 1], in halves) and what the
\* constructor accepts; radii likewise (0 stands for the radii <= 0).  The
\* cursors of the sweep are floats advanced by repeated addition, which is
\* exact for the first two additions only; the spacing factors are those whose
\* steps reach no polygon edge later than that, so that containment of a grid
\* point never hangs on a rounding error (-0.5, a step of one half, would).
SpacingFactors == {0, 1, 2}
AnySpacingFactors == {-2, 0, 1, 2, 3}
Radii == 1..MaxRadius
AnyRadii == 0..MaxRadius
\* Tables of select_balanced_types: rows per type, and the values of top_n.
MaxPerType == 6
MaxTopN == 20
TypeNames == {"a", "b", "c"}
\* counts > 4: a type takes part in the proportions with more rows than this.
MinTypeCount == 4

VARIABLES
    caller_df,        \* the DataFrame the caller passed to __init__
    df,               \* self.df, the working pool
    df_frame,         \* the frame object self.df names: "caller" or "own"
    reference_point,  \* self.reference_point, <<lat, long>>
    result_df,        \* self.result_df
    n_points,         \* self.n_points
    iter,             \* iterations of the loop of iterate_selection done so far
    rpc               \* "iterating", "returned" or "raised"

VARIABLES
    corner_sets,         \* self.corner_sets (= the vertices of self.polygons)
    radius,              \* self.radius
    spacing_factor,      \* self.spacing_factor, in halves
    circle_centers,      \* self.circle_centers
    boundary_dataframe,  \* self.boundary_dataframe
    lat,                 \* the cursors of the sweep of generate_circle_centers
    lon,
    gpc,                 \* "idle", "sweep" or "done"
    calls,               \* calls of generate_circle_centers on this optimizer
    cells,               \* passes of the inner loop made by the current call
    earlier              \* history: the first sweeps of the optimizers built
                         \* before this one on the same polygons and radius

\* Two RouteOrderOptimizer objects built from one caller's DataFrame.
VARIABLES
    frames,   \* the DataFrame objects: frames[0] is the caller's, frames[i]
              \* the one optimizer i made for itself
    pair      \* the two optimizers: which frame self.df names, the attributes
              \* of the object and the position in iterate_selection

\* PDpostprocessor.select_balanced_types
VARIABLES
    table,       \* the argument df
    top_n,       \* self.top_n
    todo,        \* proportions.items() not yet iterated
    selections,  \* the list selections
    result,      \* the returned frame
    bpc          \* "called", "selecting" or "returned"

routeVars == <<caller_df, df, df_frame, reference_point, result_df, n_points,
              iter, rpc>>
coverVars == <<corner_sets, radius, spacing_factor, circle_centers,
               boundary_dataframe, lat, lon, gpc, calls, cells, earlier>>
pairVars == <<frames, pair>>
balanceVars == <<table, top_n, todo, selections, result, bpc>>
vars == <<routeVars, coverVars, pairVars, balanceVars>>

\* What the steps of one component leave alone.
notRouteVars == <<coverVars, pairVars, balanceVars>>
notCoverVars == <<routeVars, pairVars, balanceVars>>
notPairVars == <<routeVars, coverVars, balanceVars>>
notBalanceVars == <<routeVars, coverVars, pairVars>>

\* ------------------------------------------------------------- helpers
Abs(x) == IF x < 0 THEN -x ELSE x

Min(a, b) == IF a <= b THEN a ELSE b

Range(s) == {s[k] : k \in 1..Len(s)}

SeqsUpTo(S, n) == UNION {[1..k -> S] : k \in 0..n}

\* A row of the caller's table: the four columns the optimizer reads.
CallerRows(inds) ==
    [location_id : Ids, lat : {0}, long : Lons, indicator : inds]

\* ------------------------------------------------ RouteOrderOptimizer
\* Haversine distance of two points on the equator, in units of
\* R * radians(1): with lat1 = lat2 = 0, a = sin^2(dlon/2) and c = |dlon|.
haversine_distance(lat1, lon1, lat2, lon2) == Abs(lon2 - lon1)

calculate_distances(d, ref) ==
    [k \in 1..Len(d) |->
        [location_id |-> d[k].location_id, lat |-> d[k].lat, long |-> d[k].long,
         indicator |-> d[k].indicator,
         distance |-> haversine_distance(ref[1], ref[2], d[k].lat, d[k].long)]]

\* distance / indicator, as the pair of its operands.
divide_by_indicator(d) ==
    [k \in 1..Len(d) |->
        [location_id |-> d[k].location_id, lat |-> d[k].lat, long |-> d[k].long,
         indicator |-> d[k].indicator, distance |-> d[k].distance,
         adjusted_distance |-> [num |-> d[k].distance, den |-> d[k].indicator]]]

\* Floating-point classes of num / den (num >= 0).
IsNaN(q) == q.den = 0 /\ q.num = 0
IsInf(q) == q.den = 0 /\ q.num > 0

\* q1 < q2 on floats; false whenever either is NaN.
FloatLt(q1, q2) ==
    /\ ~IsNaN(q1) /\ ~IsNaN(q2)
    /\ IF IsInf(q1) THEN FALSE
       ELSE IF IsInf(q2) THEN TRUE
       ELSE q1.num * q1.den * q2.den * q2.den < q2.num * q2.den * q1.den * q1.den

FloatLeq(q1, q2) == ~IsNaN(q1) /\ ~IsNaN(q2) /\ ~FloatLt(q2, q1)

\* Series.idxmin with skipna: pandas fills every NaN with +inf and takes the
\* first position of the least filled value, so a NaN row ties with the +inf
\* rows and wins when it comes first; 0 when no value is left (empty, or all
\* NaN), where pandas raises or returns NaN.
Valued(d) == {k \in 1..Len(d) : ~IsNaN(d[k].adjusted_distance)}

\* The value the search sees: NaN filled with +inf.
Filled(q) == IF IsNaN(q) THEN [num |-> 1, den |-> 0] ELSE q

\* The least raw distance, the indicator ignored.
idxmin_of_distance(d) ==
    LET least == {k \in 1..Len(d) : \A j \in 1..Len(d) : d[k].distance <= d[j].distance}
    IN IF least = {} THEN 0
       ELSE CHOOSE k \in least : \A j \in least : k <= j

\* The last position holding the least value instead of the first.
idxmin_last(d) ==
    LET least == {k \in 1..Len(d) : \A j \in 1..Len(d) :
                      ~FloatLt(Filled(d[j].adjusted_distance),
                               Filled(d[k].adjusted_distance))}
    IN IF Valued(d) = {} THEN 0
       ELSE CHOOSE k \in least : \A j \in least : k >= j

idxmin(d) ==
    LET least == {k \in 1..Len(d) : \A j \in 1..Len(d) :
                      ~FloatLt(Filled(d[j].adjusted_distance),
                               Filled(d[k].adjusted_distance))}
    IN IF Valued(d) = {} THEN 0
       ELSE CHOOSE k \in least : \A j \in least : k <= j

\* Only the first row carrying the id is removed.
drop_first_row(d, id) ==
    LET hits == {k \in 1..Len(d) : d[k].location_id = id}
        first == CHOOSE k \in hits : \A j \in hits : k <= j
    IN IF hits = {} THEN d
       ELSE [k \in 1..(Len(d) - 1) |-> IF k < first THEN d[k] ELSE d[k + 1]]

\* self.df[self.df['location_id'] != id]
drop_location(d, id) == SelectSeq(d, LAMBDA r : r.location_id # id)

\* The object __init__ binds self.df to.  df.copy() is a new frame of the
\* caller's rows; plain assignment would bind the caller's own frame.
df_same_object == "caller"

df_copy == "own"

\* The caller's frame after a column assignment on self.df that leaves the
\* frame d: the assignment writes into the object self.df names.
assigned_through(d) == IF df_frame = "caller" THEN d ELSE caller_df

\* One pass of the loop body of iterate_selection:
\* calculate_distances(); divide_by_indicator(); select_nearest().
Scored == divide_by_indicator(calculate_distances(df, reference_point))

\* select_nearest without the update of the reference point.
select_nearest_fixed_reference ==
    LET d == Scored
        nearest_row == d[idxmin(d)]
    IN /\ idxmin(d) # 0
       /\ result_df' = Append(result_df, nearest_row)
       /\ reference_point' = reference_point
       /\ caller_df' = assigned_through(d)
       /\ df' = drop_location(d, nearest_row.location_id)
       /\ df_frame' = "own"

select_nearest ==
    LET d == Scored
        nearest_row == d[idxmin(d)]
    IN /\ idxmin(d) # 0
       /\ result_df' = Append(result_df, nearest_row)
       /\ reference_point' = <<nearest_row.lat, nearest_row.long>>
       /\ caller_df' = assigned_through(d)
       /\ df' = drop_location(d, nearest_row.location_id)
       /\ df_frame' = "own"

\* idxmin of an empty Series raises ValueError; idxmin of an all-NaN Series
\* yields NaN and df.loc[NaN] raises KeyError.  The two column assignments
\* have already happened.
select_nearest_raises ==
    LET d == Scored
    IN /\ idxmin(d) = 0
       /\ caller_df' = assigned_through(d)
       /\ df' = d
       /\ UNCHANGED <<df_frame, result_df, reference_point>>

IterateStep ==
    /\ rpc = "iterating"
    /\ iter < n_points
    /\ select_nearest
    /\ iter' = iter + 1
    /\ UNCHANGED <<n_points, rpc, notRouteVars>>

IterateRaise ==
    /\ rpc = "iterating"
    /\ iter < n_points
    /\ select_nearest_raises
    /\ rpc' = "raised"
    /\ UNCHANGED <<n_points, iter, notRouteVars>>

IterateReturn ==
    /\ rpc = "iterating"
    /\ iter >= n_points
    /\ rpc' = "returned"
    /\ UNCHANGED <<caller_df, df, df_frame, reference_point, result_df,
                   n_points, iter, notRouteVars>>

\* RouteOrderOptimizer(df, reference_point, n_points)
RouteInit(inds) ==
    /\ caller_df \in SeqsUpTo(CallerRows(inds), MaxCand)
    /\ df = caller_df
    /\ df_frame = df_copy
    /\ reference_point \in {<<0, x>> : x \in RefLons}
    /\ result_df = <<>>
    /\ n_points \in 0..MaxN
    /\ iter = 0
    /\ rpc = "iterating"

RouteNext == IterateStep \/ IterateRaise \/ IterateReturn

\* ----------------------------- two RouteOrderOptimizer objects, interleaved
\* The two optimizers run iterate_selection concurrently; a step is one call
\* of the loop body, which reads and writes only attributes of its own
\* object and the frame its self.df names.
Optimizers == {1, 2}

\* df.loc[:, name] = values: the rows of d with the column set.
with_column(d, name, values) ==
    [k \in 1..Len(d) |->
        [f \in DOMAIN d[k] \cup {name} |-> IF f = name THEN values[k] ELSE d[k][f]]]

\* The frame self.df of optimizer i names.
df_of(i) == frames[pair[i].frame]

\* for _ in range(self.n_points): self.calculate_distances()
PairCalculate(i) ==
    LET p == pair[i]
        d == df_of(i)
    IN /\ p.pc = "calculate"
       /\ p.iter < p.n_points
       /\ frames' = [frames EXCEPT ![p.frame] =
              with_column(d, "distance",
                  [k \in 1..Len(d) |->
                      haversine_distance(p.reference_point[1], p.reference_point[2],
                                         d[k].lat, d[k].long)])]
       /\ pair' = [pair EXCEPT ![i].pc = "divide"]
       /\ UNCHANGED notPairVars

\* self.divide_by_indicator()
PairDivide(i) ==
    LET p == pair[i]
        d == df_of(i)
    IN /\ p.pc = "divide"
       /\ frames' = [frames EXCEPT ![p.frame] =
              with_column(d, "adjusted_distance",
                  [k \in 1..Len(d) |->
                      [num |-> d[k].distance, den |-> d[k].indicator]])]
       /\ pair' = [pair EXCEPT ![i].pc = "select"]
       /\ UNCHANGED notPairVars

\* self.select_nearest(); the filtered frame is a new object.
PairSelect(i) ==
    LET p == pair[i]
        d == df_of(i)
        nearest_row == d[idxmin(d)]
    IN /\ p.pc = "select"
       /\ idxmin(d) # 0
       /\ frames' = [frames EXCEPT ![i] = drop_location(d, nearest_row.location_id)]
       /\ pair' = [pair EXCEPT
              ![i].frame = i,
              ![i].result_df = Append(p.result_df, nearest_row),
              ![i].reference_point = <<nearest_row.lat, nearest_row.long>>,
              ![i].iter = p.iter + 1,
              ![i].pc = "calculate"]
       /\ UNCHANGED notPairVars

\* self.select_nearest() where idxmin raises.
PairSelectRaise(i) ==
    /\ pair[i].pc = "select"
    /\ idxmin(df_of(i)) = 0
    /\ pair' = [pair EXCEPT ![i].pc = "raised"]
    /\ UNCHANGED <<frames, notPairVars>>

\* return self.result_df.reset_index(drop=True)
PairReturn(i) ==
    /\ pair[i].pc = "calculate"
    /\ pair[i].iter >= pair[i].n_points
    /\ pair' = [pair EXCEPT ![i].pc = "returned"]
    /\ UNCHANGED <<frames, notPairVars>>

\* df = ...; RouteOrderOptimizer(df, start1, n1); RouteOrderOptimizer(df, start2, n2)
PairInit ==
    /\ \E d \in SeqsUpTo(CallerRows(Indicators), MaxCand) :
          frames = [o \in {0} \cup Optimizers |-> d]
    /\ \E starts \in [Optimizers -> {<<0, x>> : x \in RefLons}],
          ns \in [Optimizers -> 0..MaxN] :
          pair = [i \in Optimizers |->
                     [frame |-> IF df_copy = "own" THEN i ELSE 0,
                      start |-> starts[i],
                      reference_point |-> starts[i],
                      result_df |-> <<>>,
                      n_points |-> ns[i],
                      iter |-> 0,
                      pc |-> "calculate"]]

PairNext ==
    \E i \in Optimizers :
        \/ PairCalculate(i)
        \/ PairDivide(i)
        \/ PairSelect(i)
        \/ PairSelectRaise(i)
        \/ PairReturn(i)

\* ----------------------------------------------------- GMapsOptimizer
\* The polygons requests are drawn from: the axis-aligned rectangles over a
\* few intervals of 0..MaxCoord and the two right triangles on a diagonal of
\* the square, each as its ring of <<lat, lon>> corners.
Intervals == {<<0, MaxCoord>>, <<0, 1>>, <<MaxCoord - 2, MaxCoord>>}

Rect(a, b) == <<<<a[1], b[1]>>, <<a[1], b[2]>>, <<a[2], b[2]>>, <<a[2], b[1]>>>>

Rectangles == {Rect(a, b) : a \in Intervals, b \in Intervals}

Triangles ==
    {<<<<0, 0>>, <<0, MaxCoord>>, <<MaxCoord, 0>>>>,
     <<<<0, MaxCoord>>, <<MaxCoord, 0>>, <<MaxCoord, MaxCoord>>>>}

Polygons == Rectangles \cup Triangles

SetMin(S) == CHOOSE x \in S : \A y \in S : x <= y
SetMax(S) == CHOOSE x \in S : \A y \in S : x >= y

\* shapely's Polygon.contains(Point) for a convex ring: the point is in the
\* interior, strictly on one side of every edge; a point of the boundary is
\* not contained.
Cross(a, b, p) == (b[1] - a[1]) * (p[2] - a[2]) - (b[2] - a[2]) * (p[1] - a[1])

Edges(poly) == {<<poly[k], poly[(k % Len(poly)) + 1]>> : k \in 1..Len(poly)}

\* Containment that counts the boundary in.
contains_or_touches(poly, p) ==
    \/ \A e \in Edges(poly) : Cross(e[1], e[2], p) >= 0
    \/ \A e \in Edges(poly) : Cross(e[1], e[2], p) <= 0

contains(poly, p) ==
    \/ \A e \in Edges(poly) : Cross(e[1], e[2], p) > 0
    \/ \A e \in Edges(poly) : Cross(e[1], e[2], p) < 0

\* self.polygons = [Polygon(cs) for cs in self.corner_sets]
polygons == corner_sets

point_in_any_rectangle(p) == \E i \in 1..Len(polygons) : contains(polygons[i], p)

\* The area id counted from 0.
area_found_from_zero(p) ==
    LET hits == {i \in 1..Len(polygons) : contains(polygons[i], p)}
    IN IF hits = {} THEN -1 ELSE SetMin(hits) - 1

\* The last polygon that contains the point instead of the first (the loop
\* without its break).
area_found_last(p) ==
    LET hits == {i \in 1..Len(polygons) : contains(polygons[i], p)}
    IN IF hits = {} THEN -1 ELSE SetMax(hits)

\* The loop that sets area_found: -1, or the 1-based index of the first
\* polygon that contains the point.
area_found(p) ==
    LET hits == {i \in 1..Len(polygons) : contains(polygons[i], p)}
    IN IF hits = {} THEN -1 ELSE SetMin(hits)

all_lats ==
    UNION {{corner_sets[i][k][1] : k \in 1..Len(corner_sets[i])} :
              i \in 1..Len(corner_sets)}
all_lons ==
    UNION {{corner_sets[i][k][2] : k \in 1..Len(corner_sets[i])} :
              i \in 1..Len(corner_sets)}

min_lat == SetMin(all_lats)
max_lat == SetMax(all_lats)
min_lon == SetMin(all_lons)
max_lon == SetMax(all_lons)

\* The step shrinks as the spacing factor grows: (1 - spacing_factor).
step_shrinking(r, sf) == r * (2 - sf)

\* radius / earth_radius * (180 / pi) is 2 units for radius 1; times
\* (1 + spacing_factor), the factor in halves: (2 + sf) / 2.
step(r, sf) == r * (2 + sf)

lat_step == step(radius, spacing_factor)
\* The cosine factor of lon_step is in the unit of the longitudes.
lon_step == step(radius, spacing_factor)

\* The passes of the inner loop the model follows in one call: one more than
\* a sweep with a step of one unit makes over the whole square, so that only a
\* sweep that does not advance is cut short.
MaxCells == (MaxCoord + 1) * (MaxCoord + 1) + 1

\* generate_circle_centers without its test for no corners: min() of an empty
\* list raises ValueError.
GenerateNoAreas_unguarded ==
    /\ gpc \in {"idle", "done"}
    /\ calls < MaxCalls
    /\ all_lats = {} \/ all_lons = {}
    /\ gpc' = "raised"
    /\ calls' = calls + 1
    /\ UNCHANGED <<corner_sets, radius, spacing_factor, circle_centers,
                   boundary_dataframe, lat, lon, cells, earlier, notCoverVars>>

\* generate_circle_centers with no corners: prints and returns.
GenerateNoAreas ==
    /\ gpc \in {"idle", "done"}
    /\ calls < MaxCalls
    /\ all_lats = {} \/ all_lons = {}
    /\ gpc' = "done"
    /\ calls' = calls + 1
    /\ cells' = 0
    /\ UNCHANGED <<corner_sets, radius, spacing_factor, circle_centers,
                   boundary_dataframe, lat, lon, earlier, notCoverVars>>

\* generate_circle_centers up to the first test of the outer loop.
GenerateStart ==
    /\ gpc \in {"idle", "done"}
    /\ calls < MaxCalls
    /\ all_lats # {} /\ all_lons # {}
    /\ lat' = min_lat
    /\ lon' = min_lon
    /\ gpc' = "sweep"
    /\ calls' = calls + 1
    /\ cells' = 0
    /\ UNCHANGED <<corner_sets, radius, spacing_factor, circle_centers,
                   boundary_dataframe, earlier, notCoverVars>>

\* One pass of the inner loop: the grid point <<lat, lon>>.
SweepCell ==
    /\ gpc = "sweep"
    /\ lat <= max_lat
    /\ lon <= max_lon
    /\ cells < MaxCells
    /\ cells' = cells + 1
    /\ IF point_in_any_rectangle(<<lat, lon>>)
       THEN /\ circle_centers' = Append(circle_centers, <<lat, lon>>)
            /\ boundary_dataframe' =
                   Append(boundary_dataframe,
                          [lat |-> lat, lon |-> lon, radius |-> radius,
                           area_id |-> area_found(<<lat, lon>>)])
       ELSE UNCHANGED <<circle_centers, boundary_dataframe>>
    /\ lon' = lon + lon_step
    /\ UNCHANGED <<corner_sets, radius, spacing_factor, lat, gpc, calls, earlier,
                   notCoverVars>>

\* The inner loop ends: lat += lat_step, and the next row starts at min_lon.
SweepRowEnd ==
    /\ gpc = "sweep"
    /\ lat <= max_lat
    /\ lon > max_lon
    /\ lat' = lat + lat_step
    /\ lon' = min_lon
    /\ UNCHANGED <<corner_sets, radius, spacing_factor, circle_centers,
                   boundary_dataframe, gpc, calls, cells, earlier, notCoverVars>>

\* The outer loop ends: the count is printed and the call returns.
SweepEnd ==
    /\ gpc = "sweep"
    /\ lat > max_lat
    /\ gpc' = "done"
    /\ UNCHANGED <<corner_sets, radius, spacing_factor, circle_centers,
                   boundary_dataframe, lat, lon, calls, cells, earlier, notCoverVars>>

\* GMapsOptimizer(corner_sets, radius, spacing_factor): the state __init__
\* leaves.
Constructed(cs, r, sf) ==
    /\ corner_sets = cs
    /\ radius = r
    /\ spacing_factor = sf
    /\ circle_centers = <<>>
    /\ boundary_dataframe = <<>>
    /\ lat = 0
    /\ lon = 0
    /\ gpc = "idle"
    /\ calls = 0
    /\ cells = 0

\* Another optimizer is built on the same polygons and radius with another
\* spacing factor, once the first sweep of this one is over; the history
\* keeps that sweep's step and count.
ConstructNext(sfs) ==
    /\ gpc = "done"
    /\ calls = 1
    /\ earlier = <<>>
    /\ earlier' = <<[spacing_factor |-> spacing_factor, lat_step |-> lat_step,
                     lon_step |-> lon_step, centers |-> Len(circle_centers)]>>
    /\ \E sf \in sfs :
          /\ spacing_factor' = sf
          /\ circle_centers' = <<>>
          /\ boundary_dataframe' = <<>>
          /\ lat' = 0
          /\ lon' = 0
          /\ gpc' = "idle"
          /\ calls' = 0
          /\ cells' = 0
    /\ UNCHANGED <<corner_sets, radius, notCoverVars>>

CoverInit(rs, sfs) ==
    /\ \E cs \in SeqsUpTo(Polygons, MaxPolygons), r \in rs, sf \in sfs :
          Constructed(cs, r, sf)
    /\ earlier = <<>>

CoverNext(sfs) ==
    \/ GenerateNoAreas
    \/ GenerateStart
    \/ SweepCell
    \/ SweepRowEnd
    \/ SweepEnd
    \/ ConstructNext(sfs)

\* ------------------------------------------------------ specifications
\* The component a specification is not about stays as constructed.
\* ------------------------------- PDpostprocessor.select_balanced_types
\* A table is a sequence of rows [index, primary_type, score] in the order of
\* the frame; the index labels are distinct, and so are the scores, so that
\* sort_values("score") has one outcome.  The rows of a type are one block.
TypeOfRow(k, c) ==
    IF k <= c["a"] THEN "a" ELSE IF k <= c["a"] + c["b"] THEN "b" ELSE "c"

Table(c, rising) ==
    LET n == c["a"] + c["b"] + c["c"]
    IN [k \in 1..n |->
           [index |-> k, primary_type |-> TypeOfRow(k, c),
            score |-> IF rising THEN k ELSE n + 1 - k]]

\* df[df[type_col] == t]
rows_of_type(d, t) == SelectSeq(d, LAMBDA r : r.primary_type = t)

\* df[type_col].value_counts(): the types with their numbers of rows, the
\* most frequent first, equally frequent ones in the order they first appear.
value_counts(d) ==
    LET present == {d[k].primary_type : k \in 1..Len(d)}
        count(t) == Len(rows_of_type(d, t))
        first(t) == SetMin({k \in 1..Len(d) : d[k].primary_type = t})
        before(u, t) ==
            \/ count(u) > count(t)
            \/ count(u) = count(t) /\ first(u) < first(t)
    IN [j \in 1..Cardinality(present) |->
           LET t == CHOOSE x \in present :
                        Cardinality({u \in present : before(u, x)}) = j - 1
           IN [primary_type |-> t, count |-> count(t)]]

\* counts[counts > 4]
valid_types(d) == SelectSeq(value_counts(d), LAMBDA c : c.count > MinTypeCount)

RECURSIVE SumCounts(_)
SumCounts(cs) == IF cs = <<>> THEN 0 ELSE Head(cs).count + SumCounts(Tail(cs))

\* valid_types.sum()
sum5(d) == SumCounts(valid_types(d))

\* df.sort_values("score", ascending=False)
sort_values(d) ==
    [j \in 1..Len(d) |->
        d[CHOOSE k \in 1..Len(d) :
              Cardinality({m \in 1..Len(d) : d[m].score > d[k].score}) = j - 1]]

\* df.head(n), n >= 0
head(d, n) == SubSeq(d, 1, Min(n, Len(d)))

\* The quota with the product rounded up instead of truncated.
quota_ceiling(c, s, n) == Min((c * n + s - 1) \div s, c)

\* min(int(p * self.top_n), counts[t]) with p = c / s.  On the counts and
\* values of top_n of this model the float product truncates to the exact
\* quotient; the first case where it falls short is 15 / 22 * 22.
quota(c, s, n) == Min((c * n) \div s, c)

\* pd.concat(selections, axis=0)
RECURSIVE concat(_)
concat(fs) == IF fs = <<>> THEN <<>> ELSE Head(fs) \o concat(Tail(fs))

\* df[~df.index.isin(result.index)]
remaining(d, r) ==
    SelectSeq(d, LAMBDA row : row.index \notin {r[k].index : k \in 1..Len(r)})

\* if df.empty: return pd.DataFrame(columns=df.columns)
BalanceEmpty ==
    /\ bpc = "called"
    /\ table = <<>>
    /\ result' = <<>>
    /\ bpc' = "returned"
    /\ UNCHANGED <<table, top_n, todo, selections, notBalanceVars>>

\* if sum5 == 0: return df.sort_values("score", ascending=False).head(top_n)
BalanceTopN ==
    /\ bpc = "called"
    /\ table # <<>>
    /\ sum5(table) = 0
    /\ result' = head(sort_values(table), top_n)
    /\ bpc' = "returned"
    /\ UNCHANGED <<table, top_n, todo, selections, notBalanceVars>>

\* proportions = valid_types / sum5; selections = []
BalanceProportions ==
    /\ bpc = "called"
    /\ table # <<>>
    /\ sum5(table) # 0
    /\ todo' = valid_types(table)
    /\ selections' = <<>>
    /\ bpc' = "selecting"
    /\ UNCHANGED <<table, top_n, result, notBalanceVars>>

\* One pass of 'for t, p in proportions.items()'.
BalanceSelectType ==
    /\ bpc = "selecting"
    /\ todo # <<>>
    /\ LET t == Head(todo)
           n == quota(t.count, sum5(table), top_n)
           top_items == head(sort_values(rows_of_type(table, t.primary_type)), n)
       IN selections' = Append(selections, top_items)
    /\ todo' = Tail(todo)
    /\ UNCHANGED <<table, top_n, result, bpc, notBalanceVars>>

\* After the loop: the fallback for no selections, the concatenation, the
\* fill from the remaining rows, and the return.
BalanceFill ==
    /\ bpc = "selecting"
    /\ todo = <<>>
    /\ result' =
          IF selections = <<>> THEN head(sort_values(table), top_n)
          ELSE LET r == concat(selections)
                   fill == head(sort_values(remaining(table, r)), top_n - Len(r))
               IN IF Len(r) < top_n THEN r \o fill ELSE r
    /\ bpc' = "returned"
    /\ UNCHANGED <<table, top_n, todo, selections, notBalanceVars>>

\* PDpostprocessor(..., top_n=top_n).select_balanced_types(df)
BalanceInit ==
    /\ table \in {Table(c, rising) : c \in [TypeNames -> 0..MaxPerType],
                                     rising \in BOOLEAN}
    /\ top_n \in 0..MaxTopN
    /\ todo = <<>>
    /\ selections = <<>>
    /\ result = <<>>
    /\ bpc = "called"

BalanceNext ==
    \/ BalanceEmpty
    \/ BalanceTopN
    \/ BalanceProportions
    \/ BalanceSelectType
    \/ BalanceFill

RouteParked ==
    /\ caller_df = <<>>
    /\ df = <<>>
    /\ df_frame = "own"
    /\ reference_point = <<0, 0>>
    /\ result_df = <<>>
    /\ n_points = 0
    /\ iter = 0
    /\ rpc = "iterating"

CoverParked == Constructed(<<>>, 1, 0) /\ earlier = <<>>

PairParked == frames = <<>> /\ pair = <<>>

BalanceParked ==
    /\ table = <<>>
    /\ top_n = 0
    /\ todo = <<>>
    /\ selections = <<>>
    /\ result = <<>>
    /\ bpc = "called"

\* Candidates as the data model describes them (indicator > 0).
InitRoute == RouteInit(Indicators) /\ CoverParked /\ PairParked /\ BalanceParked
SpecRoute == InitRoute /\ [][RouteNext]_vars

\* Candidates as the constructor accepts them (any indicator).
InitRouteAny ==
    RouteInit(AnyIndicators) /\ CoverParked /\ PairParked /\ BalanceParked
SpecRouteAny == InitRouteAny /\ [][RouteNext]_vars

\* Coverage requests as the data model describes them (radius > 0, spacing
\* factor in [0, 1]).
InitCover ==
    CoverInit(Radii, SpacingFactors) /\ RouteParked /\ PairParked /\ BalanceParked
CoverNextValid == CoverNext(SpacingFactors)
SpecCover == InitCover /\ [][CoverNextValid]_vars

\* Coverage requests as the constructor accepts them.
InitCoverAny ==
    /\ CoverInit(AnyRadii, AnySpacingFactors)
    /\ RouteParked /\ PairParked /\ BalanceParked
CoverNextAny == CoverNext(AnySpacingFactors)
SpecCoverAny == InitCoverAny /\ [][CoverNextAny]_vars

\* Two optimizers on one caller's candidates (indicator > 0), interleaved.
InitPair == PairInit /\ RouteParked /\ CoverParked /\ BalanceParked
SpecPair == InitPair /\ [][PairNext]_vars

\* Calls of select_balanced_types.
InitBalance == BalanceInit /\ RouteParked /\ CoverParked /\ PairParked
SpecBalance == InitBalance /\ [][BalanceNext]_vars

\* ------------------------------------------------------------- claims

\* The row just appended to the itinerary.
LastSelected == result_df[Len(result_df)]

\* The adjusted distance of a pool row, measured from a reference point.
AdjustedFrom(ref, r) ==
    [num |-> haversine_distance(ref[1], ref[2], r.lat, r.long), den |-> r.indicator]

\* A selection step has just been taken.
Selected == Len(result_df') = Len(result_df) + 1

\* C1: once the run of iterate_selection has ended, it has returned, and the
\* itinerary has exactly min(n_points, number of candidates) rows; stated for
\* the pools that hold at least one candidate (the empty pool is C5's case).
C1_ItinerarySizeLaw ==
    (Len(caller_df) >= 1 /\ rpc # "iterating") =>
        /\ rpc = "returned"
        /\ Len(result_df) = Min(n_points, Len(caller_df))

\* C2: at every selection step the appended candidate's adjusted distance from
\* the reference point in force is <= that of every candidate in the pool.
C2_GreedyLocalOptimality ==
    [][Selected =>
        \A k \in 1..Len(df) :
            FloatLeq(AdjustedFrom(reference_point, LastSelected'),
                     AdjustedFrom(reference_point, df[k]))]_vars

\* C2 witness: a candidate was chosen over a strictly farther one that is
\* still in the pool.
C2_Witness ==
    /\ Len(result_df) >= 1
    /\ \E k \in 1..Len(df) :
          FloatLt(LastSelected.adjusted_distance, df[k].adjusted_distance)

\* C3: the itinerary never holds a location id twice.
C3_NoDuplicates ==
    \A i, j \in 1..Len(result_df) :
        i # j => result_df[i].location_id # result_df[j].location_id

\* C3 witness: two selections were made, the second from the pool the first
\* left behind.
C3_Witness ==
    /\ Len(result_df) = 2
    /\ iter = 2

\* The pool positions that share the least adjusted distance.
TiedAtMin(ref, d) ==
    {k \in 1..Len(d) : \A j \in 1..Len(d) :
        FloatLeq(AdjustedFrom(ref, d[k]), AdjustedFrom(ref, d[j]))}

\* C4 as claimed: among the candidates that share the least adjusted distance
\* the one with the smallest id is selected.
C4_TieBreakBySmallestId ==
    [][Selected =>
        \A k \in TiedAtMin(reference_point, df) :
            LastSelected'.location_id <= df[k].location_id]_vars

\* C4 amended: among the candidates that share the least adjusted distance the
\* one that comes first in the supplied row order is selected.
C4_TieBreakByRowOrder ==
    [][Selected =>
        \E p \in TiedAtMin(reference_point, df) :
            /\ \A k \in TiedAtMin(reference_point, df) : p <= k
            /\ LastSelected'.location_id = df[p].location_id
            /\ LastSelected'.long = df[p].long
            /\ LastSelected'.indicator = df[p].indicator]_vars

\* C4 witness: the first selection was made among two tied candidates with
\* different ids, the larger id first in the caller's order.
C4_Witness ==
    /\ Len(result_df) = 1
    /\ Len(caller_df) = 2
    /\ caller_df[1].location_id > caller_df[2].location_id
    /\ caller_df[1].long = caller_df[2].long
    /\ caller_df[1].indicator = caller_df[2].indicator

\* C5: with an empty pool or n_points = 0 the run does not raise, and what it
\* returns is the empty itinerary.
C5_NothingToDoIsNoError ==
    (Len(caller_df) = 0 \/ n_points = 0) =>
        /\ rpc # "raised"
        /\ result_df = <<>>

\* C6: a pool holding an indicator <= 0 is rejected at construction, so no
\* selection step runs on it and no itinerary row is ever built from it.
C6_BadIndicatorRejected ==
    (\E k \in 1..Len(caller_df) : caller_df[k].indicator <= 0) =>
        /\ iter = 0
        /\ result_df = <<>>

\* The grid points one sweep visits (steps > 0).
GridPoints ==
    {<<min_lat + i * lat_step, min_lon + j * lon_step>> : i, j \in 0..MaxCoord}
        \cap ((min_lat..max_lat) \X (min_lon..max_lon))

\* C7: every emitted center carries an area_id in 1..number of polygons, and
\* the polygon of that 1-based index contains the center's point.
C7_ContainmentSoundness ==
    \A k \in 1..Len(boundary_dataframe) :
        LET c == boundary_dataframe[k]
        IN /\ c.area_id \in 1..Len(polygons)
           /\ contains(polygons[c.area_id], <<c.lat, c.lon>>)

\* C7 witness: a center was emitted for the second polygon of the request.
C7_Witness ==
    \E k \in 1..Len(boundary_dataframe) : boundary_dataframe[k].area_id = 2

\* C8: once a sweep is over, every grid point that lies in or on the boundary
\* of an input polygon has been emitted as a circle center.
C8_BoundaryInclusive ==
    (gpc = "done" /\ corner_sets # <<>>) =>
        \A p \in GridPoints :
            (\E i \in 1..Len(polygons) : contains_or_touches(polygons[i], p))
                => p \in Range(circle_centers)

\* The optimizer built before this one had a spacing factor no larger, and
\* both have finished their first sweep.
ComparableSweeps ==
    /\ gpc = "done"
    /\ calls = 1
    /\ earlier # <<>>
    /\ earlier[1].spacing_factor <= spacing_factor

\* C9 as claimed: for any polygons, a larger spacing factor gives a step no
\* smaller and a number of centers no larger.
C9_SpacingMonotone ==
    ComparableSweeps =>
        /\ lat_step >= earlier[1].lat_step
        /\ lon_step >= earlier[1].lon_step
        /\ Len(circle_centers) <= earlier[1].centers

\* C9 amended: for any polygons a larger spacing factor gives a step no
\* smaller; the number of centers is no larger when the request is a single
\* axis-aligned rectangle.
C9_StepMonotoneCountOnRectangle ==
    ComparableSweeps =>
        /\ lat_step >= earlier[1].lat_step
        /\ lon_step >= earlier[1].lon_step
        /\ (Len(corner_sets) = 1 /\ corner_sets[1] \in Rectangles)
               => Len(circle_centers) <= earlier[1].centers

\* C9 witness: on a single rectangle a strictly larger spacing factor has
\* given a strictly larger step and strictly fewer centers.
C9_Witness ==
    /\ ComparableSweeps
    /\ Len(corner_sets) = 1 /\ corner_sets[1] \in Rectangles
    /\ lat_step > earlier[1].lat_step
    /\ Len(circle_centers) < earlier[1].centers

\* C10: an optimizer with radius <= 0 or a spacing factor outside [0, 1] is
\* rejected at construction, so its sweep never starts.
C10_BadParametersRejected ==
    (radius <= 0 \/ spacing_factor \notin SpacingFactors) => gpc # "sweep"

\* C11: every pass of the sweep's loops moves its cursor strictly forward (the
\* inner loop the longitude, the outer loop the latitude), so a call visits a
\* bounded number of grid cells and ends.
C11_SweepAdvances ==
    [][/\ (gpc = "sweep" /\ cells' = cells + 1) => lon' > lon
       /\ (gpc = "sweep" /\ gpc' = "sweep" /\ cells' = cells) => lat' > lat]_vars

\* C12: with no polygons a call of generate_circle_centers neither raises nor
\* sweeps: it returns, and no circle center is ever emitted.
C12_NoAreasIsNoError ==
    corner_sets = <<>> =>
        /\ gpc \in {"idle", "done"}
        /\ circle_centers = <<>>
        /\ boundary_dataframe = <<>>

\* C12 witness: a call on an optimizer without polygons has returned.
C12_Witness ==
    /\ corner_sets = <<>>
    /\ gpc = "done"
    /\ calls = 1

\* The grid points of a sweep that some polygon contains.
EmittedGrid ==
    {p \in GridPoints : \E i \in 1..Len(polygons) : contains(polygons[i], p)}

\* C13: after one sweep every grid point that some polygon contains has
\* exactly one row, whose area_id is the index of the first polygon that
\* contains it, and a grid point that no polygon contains has no row.
C13_FirstMatchAttribution ==
    (gpc = "done" /\ calls = 1 /\ corner_sets # <<>>) =>
        \A p \in GridPoints :
            LET rows == {k \in 1..Len(boundary_dataframe) :
                            /\ boundary_dataframe[k].lat = p[1]
                            /\ boundary_dataframe[k].lon = p[2]}
                holders == {i \in 1..Len(polygons) : contains(polygons[i], p)}
            IN IF holders = {} THEN rows = {}
               ELSE /\ Cardinality(rows) = 1
                    /\ \A k \in rows :
                          /\ boundary_dataframe[k].area_id \in holders
                          /\ \A i \in holders : boundary_dataframe[k].area_id <= i

\* C13 witness: a sweep has emitted a point that both polygons of the request
\* contain, and a grid point that neither contains was visited.
C13_Witness ==
    /\ gpc = "done" /\ calls = 1 /\ Len(corner_sets) = 2
    /\ \E k \in 1..Len(boundary_dataframe) :
          LET p == <<boundary_dataframe[k].lat, boundary_dataframe[k].lon>>
          IN contains(polygons[1], p) /\ contains(polygons[2], p)
    /\ GridPoints # EmittedGrid

\* C14: whenever a call of generate_circle_centers has returned, the optimizer
\* holds the centers of one sweep, each once, however many calls were made.
C14_GenerateRepeatable ==
    (gpc = "done" /\ corner_sets # <<>>) =>
        /\ Len(circle_centers) = Cardinality(EmittedGrid)
        /\ Len(boundary_dataframe) = Cardinality(EmittedGrid)
        /\ Range(circle_centers) = EmittedGrid

\* C15: no step of the optimizer changes the frame the caller passed to the
\* constructor: it keeps its rows, its columns and its values, and only the
\* optimizer's own copy changes.
C15_CallerDataUntouched ==
    [][/\ caller_df' = caller_df
       /\ \A k \in 1..Len(caller_df') :
             DOMAIN caller_df'[k] = {"location_id", "lat", "long", "indicator"}]_vars

\* C15 witness: two selections were made from a pool of two candidates, the
\* working copy is used up and has gained its columns on the way, and the
\* caller still holds both rows.
C15_Witness ==
    /\ Len(caller_df) = 2
    /\ Len(result_df) = 2
    /\ df = <<>>
    /\ "adjusted_distance" \in DOMAIN result_df[1]

\* C17: a selection step measures the distance of the row it selects and of
\* every row it leaves in the pool from the reference point it starts with,
\* and then sets the reference point to the selected row's coordinates; no
\* other step moves the reference point, so from the second selection on the
\* distances are measured from the row selected last.
C17_MovingReference ==
    [][/\ Selected =>
             /\ LastSelected'.distance =
                    haversine_distance(reference_point[1], reference_point[2],
                                       LastSelected'.lat, LastSelected'.long)
             /\ \A k \in 1..Len(df') :
                   df'[k].distance =
                       haversine_distance(reference_point[1], reference_point[2],
                                          df'[k].lat, df'[k].long)
             /\ reference_point' = <<LastSelected'.lat, LastSelected'.long>>
       /\ ~Selected => reference_point' = reference_point
       /\ result_df # <<>> =>
             reference_point = <<LastSelected.lat, LastSelected.long>>]_vars

\* C17 witness: the first selection went to longitude 2, where no initial
\* reference point lies, and the second selection, at another longitude, has
\* its distance measured from there.
C17_Witness ==
    /\ Len(result_df) = 2
    /\ result_df[1].long = 2
    /\ result_df[2].long # 2
    /\ result_df[2].distance = Abs(result_df[2].long - 2)
    /\ reference_point = <<0, result_df[2].long>>

\* The location ids of the rows of a frame.
IdsOf(d) == {d[k].location_id : k \in 1..Len(d)}

\* C18: after a selection step the ids of the itinerary and the ids of the
\* pool are disjoint and together are the ids of the original candidates;
\* the step adds one row to the itinerary and removes from the pool every row
\* that carries the selected id.
C18_PoolItineraryPartition ==
    [][Selected =>
          /\ IdsOf(result_df') \cap IdsOf(df') = {}
          /\ IdsOf(result_df') \cup IdsOf(df') = IdsOf(caller_df)
          /\ LastSelected'.location_id \in IdsOf(df)
          /\ Len(df') = Len(df) - Cardinality({k \in 1..Len(df) :
                            df[k].location_id = LastSelected'.location_id})]_vars

\* C18 witness: both candidates carry one id, and one selection has emptied
\* the pool.
C18_Witness ==
    /\ Len(caller_df) = 2
    /\ caller_df[1].location_id = caller_df[2].location_id
    /\ Len(result_df) = 1
    /\ df = <<>>

\* iterate_selection run alone for k passes from the pool d, the reference
\* point ref and the itinerary res: the pool, the reference point and the
\* itinerary it leaves, and whether the last pass raised.
RECURSIVE Alone(_, _, _, _)
Alone(d, ref, res, k) ==
    IF k = 0
    THEN [df |-> d, reference_point |-> ref, result_df |-> res, raised |-> FALSE]
    ELSE LET scored == divide_by_indicator(calculate_distances(d, ref))
             row == scored[idxmin(scored)]
         IN IF idxmin(scored) = 0
            THEN [df |-> scored, reference_point |-> ref, result_df |-> res,
                  raised |-> TRUE]
            ELSE Alone(drop_location(scored, row.location_id),
                       <<row.lat, row.long>>, Append(res, row), k - 1)

\* What optimizer i of the pair holds.
Holds(i) ==
    [df |-> df_of(i), reference_point |-> pair[i].reference_point,
     result_df |-> pair[i].result_df, raised |-> pair[i].pc = "raised"]

\* C16: however the steps of two optimizers built from one frame are
\* interleaved, each holds between its passes the pool, the reference point
\* and the itinerary it would hold had it run alone, within a pass measures
\* and scores its own pool from its own reference point, and returns (or
\* raises) with exactly the itinerary of the run alone.
C16_IndependentInvocations ==
    \A i \in Optimizers :
        LET p == pair[i]
            alone == Alone(frames[0], p.start, <<>>, p.iter)
        IN /\ p.pc \in {"calculate", "returned"} => Holds(i) = alone
           /\ p.pc = "returned" => p.iter = p.n_points
           /\ p.pc = "raised" =>
                 Holds(i) = Alone(frames[0], p.start, <<>>, p.iter + 1)
           /\ p.pc \in {"divide", "select"} =>
                 /\ p.result_df = alone.result_df
                 /\ p.reference_point = alone.reference_point
                 /\ Len(df_of(i)) = Len(alone.df)
                 /\ \A k \in 1..Len(alone.df) :
                       /\ df_of(i)[k].location_id = alone.df[k].location_id
                       /\ df_of(i)[k].distance =
                              haversine_distance(p.reference_point[1],
                                  p.reference_point[2],
                                  alone.df[k].lat, alone.df[k].long)
           /\ p.pc = "select" =>
                 df_of(i) = divide_by_indicator(
                                calculate_distances(alone.df, alone.reference_point))

\* C16 witness: both optimizers are in the middle of their second pass, so
\* their steps were interleaved; they started from different reference
\* points and selected different first rows.
C16_Witness ==
    /\ DOMAIN pair = Optimizers
    /\ pair[1].pc = "select" /\ pair[2].pc = "divide"
    /\ pair[1].iter = 1 /\ pair[2].iter = 1
    /\ pair[1].start # pair[2].start
    /\ pair[1].result_df # pair[2].result_df

\* The quotas of the types of the proportions, added up.
RECURSIVE SumQuotas(_, _, _)
SumQuotas(cs, s, n) ==
    IF cs = <<>> THEN 0
    ELSE quota(Head(cs).count, s, n) + SumQuotas(Tail(cs), s, n)

\* C19: for a non-empty table with distinct labels and top_n >= 0 the quotas
\* of the types with more than 4 rows add up to at most top_n, and the
\* returned table has min(top_n, rows of the input) rows, all of them rows of
\* the input and none of them twice.
C19_SelectionSizeLaw ==
    table # <<>> =>
        /\ SumQuotas(valid_types(table), sum5(table), top_n) <= top_n
        /\ bpc = "selecting" => Len(concat(selections)) <= top_n
        /\ bpc = "returned" =>
              /\ Len(result) = Min(top_n, Len(table))
              /\ Range(result) \subseteq Range(table)
              /\ \A j, k \in 1..Len(result) :
                    result[j].index = result[k].index => j = k

\* C19 witness: two types had quotas, the quotas fell short of top_n, the
\* shortfall was filled from the remaining rows, and rows were left over.
C19_Witness ==
    /\ bpc = "returned"
    /\ Len(selections) = 2
    /\ Len(concat(selections)) < top_n
    /\ top_n < Len(table)
    /\ Len(result) = top_n

====
